---- MODULE Spec2Model ----
(***************************************************************************)
(* Payroll manager (src/app.py): an SQLite store of employees, work-hour   *)
(* entries and adjustments, the payroll report computed from it by         *)
(* calculate_payroll with pandas, and the Streamlit forms that write to    *)
(* the store.                                                              *)
(*                                                                         *)
(* Numbers: REAL columns are modelled by integers (exact arithmetic).      *)
(* Text: a TEXT value is the sequence of its code points, compared the way *)
(* SQLite's BINARY collation and Python's str comparison compare it.       *)
(* Columns no operation of the model reads (role_title, start_date of an   *)
(* employee, notes, description) are left out of the rows.                 *)
(***************************************************************************)
EXTENDS Integers, Sequences, FiniteSets, TLC

VARIABLES
    employees,      \* table employees: rows in rowid order
    work_hours,     \* table work_hours
    adjustments,    \* table adjustments
    last,           \* the last operation called: its arguments and outcome
    pc,             \* position of a calculate_payroll call running in a second session
    p_args,         \* that call's <<start_date, end_date>>
    p_employees,    \* that call's local frame employees
    p_hours,        \* that call's local frame hours
    p_bonuses,      \* that call's local frame bonuses
    seen            \* the reports of the store states that have existed since that call began

vars == <<employees, work_hours, adjustments, last, pc, p_args, p_employees,
          p_hours, p_bonuses, seen>>
storeVars == <<employees, work_hours, adjustments>>
callVars == <<pc, p_args, p_employees, p_hours, p_bonuses, seen>>

----------------------------------------------------------------------------
(* Bounds and input sets *)

MaxWrites == 3      \* rows in the three tables together
NumDays == 2        \* consecutive calendar days the inputs are drawn from

Names == {<<65>>, <<66>>}               \* "A", "B"
Rates == {10}
HoursValues == {2, 8}
Amounts == {50}
AdjustmentTypes == {"bonus", "deduction"}

----------------------------------------------------------------------------
(* datetime.date *)

FirstDay == [year |-> 2024, month |-> 9, day |-> 30]
NoDate == [year |-> 0, month |-> 0, day |-> 0]

IsLeap(y) == (y % 4 = 0 /\ y % 100 # 0) \/ y % 400 = 0

DaysInMonth(y, m) ==
    IF m = 2 THEN (IF IsLeap(y) THEN 29 ELSE 28)
    ELSE IF m \in {4, 6, 9, 11} THEN 30 ELSE 31

\* d + timedelta(days=1)
NextDay(d) ==
    IF d.day < DaysInMonth(d.year, d.month) THEN [d EXCEPT !.day = @ + 1]
    ELSE IF d.month < 12 THEN [year |-> d.year, month |-> d.month + 1, day |-> 1]
    ELSE [year |-> d.year + 1, month |-> 1, day |-> 1]

RECURSIVE DayAt(_)
DayAt(i) == IF i = 0 THEN FirstDay ELSE NextDay(DayAt(i - 1))

Dates == {DayAt(i) : i \in 0..(NumDays - 1)}

\* date.__lt__, date.__le__: order of (year, month, day)
DateLess(a, b) ==
    \/ a.year < b.year
    \/ a.year = b.year /\ a.month < b.month
    \/ a.year = b.year /\ a.month = b.month /\ a.day < b.day

DateLeq(a, b) == a = b \/ DateLess(a, b)

\* the decimal digits of n, zero-padded to width w, as code points
RECURSIVE Pad(_, _)
Pad(n, w) == IF w = 0 THEN <<>> ELSE Append(Pad(n \div 10, w - 1), 48 + (n % 10))

\* date.isoformat(): "YYYY-MM-DD"
isoformat(d) == Pad(d.year, 4) \o <<45>> \o Pad(d.month, 2) \o <<45>> \o Pad(d.day, 2)

----------------------------------------------------------------------------
(* TEXT comparison *)

RECURSIVE TextLess(_, _)
TextLess(a, b) ==
    IF b = <<>> THEN FALSE
    ELSE IF a = <<>> THEN TRUE
    ELSE IF a[1] # b[1] THEN a[1] < b[1]
    ELSE TextLess(Tail(a), Tail(b))

TextLeq(a, b) == a = b \/ TextLess(a, b)

\* Between with a fault: the upper endpoint is excluded
BetweenExclusive(x, lo, hi) == TextLeq(lo, x) /\ TextLess(x, hi)

\* SQL: x BETWEEN lo AND hi
Between(x, lo, hi) == TextLeq(lo, x) /\ TextLeq(x, hi)

----------------------------------------------------------------------------
(* The store and its writes *)

Store == [employees |-> employees, work_hours |-> work_hours, adjustments |-> adjustments]

EmptyStore == [employees |-> <<>>, work_hours |-> <<>>, adjustments |-> <<>>]

\* sqlite3.connect() leaves PRAGMA foreign_keys at its default, OFF, and no
\* statement of the program turns it on: the FOREIGN KEY clauses are not enforced.
foreign_keys == FALSE

EmployeeIds(db) == {db.employees[i].id : i \in DOMAIN db.employees}

\* INTEGER PRIMARY KEY AUTOINCREMENT of a table no row is ever deleted from
NextId(table) == Len(table) + 1

add_employee(db, full_name, hourly_rate) ==
    [db |-> [db EXCEPT !.employees = Append(@,
                [id |-> NextId(db.employees), full_name |-> full_name,
                 hourly_rate |-> hourly_rate])],
     outcome |-> "ok"]

add_work_hours(db, employee_id, work_date, hours) ==
    IF foreign_keys /\ employee_id \notin EmployeeIds(db)
    THEN [db |-> db, outcome |-> "error"]
    ELSE [db |-> [db EXCEPT !.work_hours = Append(@,
                    [id |-> NextId(db.work_hours), employee_id |-> employee_id,
                     work_date |-> isoformat(work_date), hours |-> hours])],
          outcome |-> "ok"]

add_adjustment(db, employee_id, adjustment_date, adjustment_type, amount) ==
    IF foreign_keys /\ employee_id \notin EmployeeIds(db)
    THEN [db |-> db, outcome |-> "error"]
    ELSE [db |-> [db EXCEPT !.adjustments = Append(@,
                    [id |-> NextId(db.adjustments), employee_id |-> employee_id,
                     adjustment_date |-> isoformat(adjustment_date),
                     adjustment_type |-> adjustment_type, amount |-> amount])],
          outcome |-> "ok"]

----------------------------------------------------------------------------
(* The reads of calculate_payroll *)

RECURSIVE SumHours(_)
SumHours(rows) == IF rows = <<>> THEN 0 ELSE Head(rows).hours + SumHours(Tail(rows))

RECURSIVE SumAmount(_)
SumAmount(rows) == IF rows = <<>> THEN 0 ELSE Head(rows).amount + SumAmount(Tail(rows))

\* SELECT id, full_name, hourly_rate FROM employees
read_employees(db) == db.employees

\* SELECT employee_id, SUM(hours) AS total_hours FROM work_hours
\* WHERE work_date BETWEEN ? AND ? GROUP BY employee_id
read_hours(db, start_date, end_date) ==
    LET lo == isoformat(start_date)
        hi == isoformat(end_date)
        sel == SelectSeq(db.work_hours, LAMBDA r : Between(r.work_date, lo, hi))
    IN  {[employee_id |-> k,
          total |-> SumHours(SelectSeq(sel, LAMBDA r : r.employee_id = k))] :
            k \in {sel[i].employee_id : i \in DOMAIN sel}}

\* SELECT employee_id, SUM(amount) FROM adjustments
\* WHERE adjustment_date BETWEEN ? AND ? AND adjustment_type = <kind> GROUP BY employee_id
read_adjustments(db, start_date, end_date, kind) ==
    LET lo == isoformat(start_date)
        hi == isoformat(end_date)
        sel == SelectSeq(db.adjustments,
                         LAMBDA r : /\ Between(r.adjustment_date, lo, hi)
                                    /\ r.adjustment_type = kind)
    IN  {[employee_id |-> k,
          total |-> SumAmount(SelectSeq(sel, LAMBDA r : r.employee_id = k))] :
            k \in {sel[i].employee_id : i \in DOMAIN sel}}

----------------------------------------------------------------------------
(* The pandas part of calculate_payroll.  A cell of a merged column is     *)
(* <<v>> when it holds the value v and NaN when the left join found no     *)
(* match for the row.                                                      *)

NaN == <<>>

fillna(cell) == IF cell = NaN THEN 0 ELSE cell[1]

\* merge_hours with a fault: how="inner"
merge_hours_inner(emps, hours) ==
    LET matched == SelectSeq(emps, LAMBDA e : \E h \in hours : h.employee_id = e.id)
    IN  [i \in 1..Len(matched) |->
            LET e == matched[i]
                h == CHOOSE h \in hours : h.employee_id = e.id
            IN  [index |-> i - 1, full_name |-> e.full_name,
                 hourly_rate |-> e.hourly_rate,
                 employee_id |-> <<e.id>>, total_hours |-> <<h.total>>]]

\* employees.merge(hours, how="left", left_on="id", right_on="employee_id"):
\* one row per row of employees (hours has one row per employee_id); the
\* columns employee_id and total_hours come from hours and are NaN in the
\* rows without a match.  index is the row's label in the frame.
merge_hours(emps, hours) ==
    [i \in 1..Len(emps) |->
        LET e == emps[i]
            m == {h \in hours : h.employee_id = e.id}
        IN  [index |-> i - 1, full_name |-> e.full_name,
             hourly_rate |-> e.hourly_rate,
             employee_id |-> IF m = {} THEN NaN ELSE <<e.id>>,
             total_hours |-> IF m = {} THEN NaN
                             ELSE <<(CHOOSE h \in m : TRUE).total>>]]

\* payroll.merge(totals, how="left", on="employee_id"): the cell of the
\* totals' column in a row of payroll.  The key is payroll's column
\* employee_id, which the first merge took from hours.
merge_on_employee_id(row, totals) ==
    LET m == {t \in totals : <<t.employee_id>> = row.employee_id}
    IN  IF m = {} THEN NaN ELSE <<(CHOOSE t \in m : TRUE).total>>

\* net_pay with a fault: the deductions are added
net_pay_added(gross_pay, bonus_total, deduction_total) ==
    gross_pay + bonus_total + deduction_total

\* payroll["net_pay"]
net_pay(gross_pay, bonus_total, deduction_total) ==
    gross_pay + bonus_total - deduction_total

\* the three merges, the fillna and the pay columns; the columns returned
payroll_frame(emps, hours, bonuses, deductions) ==
    LET merged == merge_hours(emps, hours)
    IN  [i \in 1..Len(merged) |->
            LET row == merged[i]
                total_hours == fillna(row.total_hours)
                bonus_total == fillna(merge_on_employee_id(row, bonuses))
                deduction_total == fillna(merge_on_employee_id(row, deductions))
                gross_pay == total_hours * row.hourly_rate
            IN  [index |-> row.index, full_name |-> row.full_name,
                 hourly_rate |-> row.hourly_rate, total_hours |-> total_hours,
                 gross_pay |-> gross_pay, bonus_total |-> bonus_total,
                 deduction_total |-> deduction_total,
                 net_pay |-> net_pay(gross_pay, bonus_total, deduction_total)]]

\* .sort_values("full_name"): kind defaults to "quicksort", which is not a
\* stable sort, so the rows come back in some order that is ascending in
\* full_name; the order of rows with equal full_name is not determined.
sort_values(frame) ==
    {s \in {[i \in 1..Len(frame) |-> frame[p[i]]] : p \in Permutations(1..Len(frame))} :
        \A i, j \in 1..Len(s) : i < j => ~TextLess(s[j].full_name, s[i].full_name)}

\* the frame calculate_payroll builds from one store state, before the sort
payroll_of(db, start_date, end_date) ==
    IF read_employees(db) = <<>> THEN <<>>
    ELSE payroll_frame(read_employees(db),
                       read_hours(db, start_date, end_date),
                       read_adjustments(db, start_date, end_date, "bonus"),
                       read_adjustments(db, start_date, end_date, "deduction"))

\* the reports a call of calculate_payroll on one store state may return
calculate_payroll(db, start_date, end_date) ==
    sort_values(payroll_of(db, start_date, end_date))

----------------------------------------------------------------------------
(* Operations of one session: each call runs to its end before the next *)

Result(op, employee_id, start_date, end_date, outcome, report) ==
    [op |-> op, employee_id |-> employee_id, start_date |-> start_date,
     end_date |-> end_date, outcome |-> outcome, report |-> report]

NoResult == Result("none", 0, NoDate, NoDate, "ok", <<>>)

\* the session is between two calls
Ready == last = NoResult

Rows == Len(employees) + Len(work_hours) + Len(adjustments)

\* the employee ids a caller may pass: those of the roster and the next, unused one
CallIds == 1..(Len(employees) + 1)

Commit(db) ==
    /\ employees' = db.employees
    /\ work_hours' = db.work_hours
    /\ adjustments' = db.adjustments

Init ==
    /\ employees = <<>>
    /\ work_hours = <<>>
    /\ adjustments = <<>>
    /\ last = NoResult
    /\ pc = "idle"
    /\ p_args = <<NoDate, NoDate>>
    /\ p_employees = <<>>
    /\ p_hours = {}
    /\ p_bonuses = {}
    /\ seen = {}

AddEmployee(full_name, hourly_rate) ==
    /\ Ready
    /\ Rows < MaxWrites
    /\ LET r == add_employee(Store, full_name, hourly_rate)
       IN  /\ Commit(r.db)
           /\ last' = Result("add_employee", 0, NoDate, NoDate, r.outcome, <<>>)

AddWorkHours(employee_id, work_date, hours) ==
    /\ Ready
    /\ Rows < MaxWrites
    /\ LET r == add_work_hours(Store, employee_id, work_date, hours)
       IN  /\ Commit(r.db)
           /\ last' = Result("add_work_hours", employee_id, NoDate, NoDate, r.outcome, <<>>)

AddAdjustment(employee_id, adjustment_date, adjustment_type, amount) ==
    /\ Ready
    /\ Rows < MaxWrites
    /\ LET r == add_adjustment(Store, employee_id, adjustment_date, adjustment_type, amount)
       IN  /\ Commit(r.db)
           /\ last' = Result("add_adjustment", employee_id, NoDate, NoDate, r.outcome, <<>>)

\* a direct call calculate_payroll(start_date, end_date): the function has
\* no check of the range
CalculatePayroll(start_date, end_date) ==
    /\ Ready
    /\ \E report \in calculate_payroll(Store, start_date, end_date) :
          last' = Result("calculate_payroll", 0, start_date, end_date, "ok", report)
    /\ UNCHANGED storeVars

\* main() loads the roster once and hands it to the forms
load_employees(db) == db.employees

\* employees.loc[employees["full_name"] == employee_label, "id"].iloc[0]:
\* the id of the first roster row with that full_name
label_to_id(roster, employee_label) ==
    roster[CHOOSE i \in DOMAIN roster :
              /\ roster[i].full_name = employee_label
              /\ \A j \in DOMAIN roster : roster[j].full_name = employee_label => i <= j].id

\* the hours section: st.info and return on an empty roster; else the form,
\* submitted with the option at position choice selected (st.selectbox
\* returns the option's value, the full_name)
RenderHoursSection(choice, work_date, hours) ==
    LET roster == load_employees(Store)
    IN  /\ Ready
        /\ IF roster = <<>>
           THEN /\ choice = 1
                /\ last' = Result("render_hours_section", 0, NoDate, NoDate, "info", <<>>)
                /\ UNCHANGED storeVars
           ELSE /\ Rows < MaxWrites
                /\ choice \in DOMAIN roster
                /\ LET employee_label == roster[choice].full_name
                       employee_id == label_to_id(roster, employee_label)
                       r == add_work_hours(Store, employee_id, work_date, hours)
                   IN  /\ Commit(r.db)
                       /\ last' = Result("render_hours_section", roster[choice].id,
                                         NoDate, NoDate, r.outcome, <<>>)

\* the adjustments form, likewise
RenderAdjustmentsSection(choice, adjustment_date, adjustment_type, amount) ==
    LET roster == load_employees(Store)
    IN  /\ Ready
        /\ IF roster = <<>>
           THEN /\ choice = 1
                /\ last' = Result("render_adjustments_section", 0, NoDate, NoDate,
                                  "info", <<>>)
                /\ UNCHANGED storeVars
           ELSE /\ Rows < MaxWrites
                /\ choice \in DOMAIN roster
                /\ LET employee_label == roster[choice].full_name
                       employee_id == label_to_id(roster, employee_label)
                       r == add_adjustment(Store, employee_id, adjustment_date,
                                           adjustment_type, amount)
                   IN  /\ Commit(r.db)
                       /\ last' = Result("render_adjustments_section", roster[choice].id,
                                         NoDate, NoDate, r.outcome, <<>>)

\* invalid_range with a fault: the check is missing
invalid_range_unchecked(start_date, end_date) == FALSE

\* if start_date > end_date
invalid_range(start_date, end_date) == DateLess(end_date, start_date)

\* the payroll section: st.error and return on a reversed range, else the
\* report of calculate_payroll (st.info when it is empty, else the table)
RenderPayrollSection(start_date, end_date) ==
    /\ Ready
    /\ IF invalid_range(start_date, end_date)
       THEN last' = Result("render_payroll_section", 0, start_date, end_date, "error", <<>>)
       ELSE \E report \in calculate_payroll(Store, start_date, end_date) :
               last' = Result("render_payroll_section", 0, start_date, end_date,
                              IF report = <<>> THEN "info" ELSE "table", report)
    /\ UNCHANGED storeVars

\* the caller has taken the outcome of its call: the session is ready for the next
Return ==
    /\ ~Ready
    /\ last' = NoResult
    /\ UNCHANGED storeVars

Next ==
    \/ \E n \in Names, r \in Rates : AddEmployee(n, r) /\ UNCHANGED callVars
    \/ \E id \in CallIds, d \in Dates, h \in HoursValues :
          AddWorkHours(id, d, h) /\ UNCHANGED callVars
    \/ \E id \in CallIds, d \in Dates, t \in AdjustmentTypes, a \in Amounts :
          AddAdjustment(id, d, t, a) /\ UNCHANGED callVars
    \/ \E c \in 1..MaxWrites, d \in Dates, h \in HoursValues :
          RenderHoursSection(c, d, h) /\ UNCHANGED callVars
    \/ \E c \in 1..MaxWrites, d \in Dates, t \in AdjustmentTypes, a \in Amounts :
          RenderAdjustmentsSection(c, d, t, a) /\ UNCHANGED callVars
    \/ \E s \in Dates, e \in Dates : CalculatePayroll(s, e) /\ UNCHANGED callVars
    \/ \E s \in Dates, e \in Dates : RenderPayrollSection(s, e) /\ UNCHANGED callVars
    \/ Return /\ UNCHANGED callVars

Spec == Init /\ [][Next]_vars

----------------------------------------------------------------------------
(* Two sessions: one calls calculate_payroll, whose four queries are four  *)
(* statements of a connection in autocommit mode (no transaction spans     *)
(* them), while the other one writes.  Streamlit runs each session's       *)
(* script in a thread of its own.                                          *)

StoreAfter == [employees |-> employees', work_hours |-> work_hours',
               adjustments |-> adjustments']

\* a write commits while the call is running: one more store state has existed
Observe ==
    seen' = IF pc = "idle" THEN seen
            ELSE seen \cup {payroll_of(StoreAfter, p_args[1], p_args[2])}

WriterAddEmployee(full_name, hourly_rate) ==
    /\ Rows < MaxWrites
    /\ Commit(add_employee(Store, full_name, hourly_rate).db)
    /\ Observe
    /\ UNCHANGED <<last, pc, p_args, p_employees, p_hours, p_bonuses>>

WriterAddWorkHours(employee_id, work_date, hours) ==
    /\ Rows < MaxWrites
    /\ Commit(add_work_hours(Store, employee_id, work_date, hours).db)
    /\ Observe
    /\ UNCHANGED <<last, pc, p_args, p_employees, p_hours, p_bonuses>>

WriterAddAdjustment(employee_id, adjustment_date, adjustment_type, amount) ==
    /\ Rows < MaxWrites
    /\ Commit(add_adjustment(Store, employee_id, adjustment_date, adjustment_type,
                             amount).db)
    /\ Observe
    /\ UNCHANGED <<last, pc, p_args, p_employees, p_hours, p_bonuses>>

\* the call begins: employees is read; an empty roster returns at once
ReadEmployees(start_date, end_date) ==
    /\ pc = "idle"
    /\ Ready
    /\ p_args' = <<start_date, end_date>>
    /\ seen' = {payroll_of(Store, start_date, end_date)}
    /\ IF read_employees(Store) = <<>>
       THEN /\ last' = Result("calculate_payroll", 0, start_date, end_date, "ok", <<>>)
            /\ UNCHANGED <<pc, p_employees>>
       ELSE /\ p_employees' = read_employees(Store)
            /\ pc' = "hours"
            /\ UNCHANGED last
    /\ UNCHANGED <<storeVars, p_hours, p_bonuses>>

ReadHours ==
    /\ pc = "hours"
    /\ p_hours' = read_hours(Store, p_args[1], p_args[2])
    /\ pc' = "bonuses"
    /\ UNCHANGED <<storeVars, last, p_args, p_employees, p_bonuses, seen>>

ReadBonuses ==
    /\ pc = "bonuses"
    /\ p_bonuses' = read_adjustments(Store, p_args[1], p_args[2], "bonus")
    /\ pc' = "deductions"
    /\ UNCHANGED <<storeVars, last, p_args, p_employees, p_hours, seen>>

\* deductions is read, the frames are merged and the report is returned
ReadDeductions ==
    /\ pc = "deductions"
    /\ LET deductions == read_adjustments(Store, p_args[1], p_args[2], "deduction")
       IN  \E report \in sort_values(payroll_frame(p_employees, p_hours, p_bonuses,
                                                   deductions)) :
              last' = Result("calculate_payroll", 0, p_args[1], p_args[2], "ok", report)
    /\ pc' = "idle"
    /\ UNCHANGED <<storeVars, p_args, p_employees, p_hours, p_bonuses, seen>>

\* the caller has taken the report: the call's locals are gone
PayrollReturn ==
    /\ pc = "idle"
    /\ ~Ready
    /\ last' = NoResult
    /\ p_args' = <<NoDate, NoDate>>
    /\ p_employees' = <<>>
    /\ p_hours' = {}
    /\ p_bonuses' = {}
    /\ seen' = {}
    /\ UNCHANGED <<storeVars, pc>>

NextConc ==
    \/ \E n \in Names, r \in Rates : WriterAddEmployee(n, r)
    \/ \E id \in CallIds, d \in Dates, h \in HoursValues : WriterAddWorkHours(id, d, h)
    \/ \E id \in CallIds, d \in Dates, t \in AdjustmentTypes, a \in Amounts :
          WriterAddAdjustment(id, d, t, a)
    \/ \E s \in Dates, e \in Dates : ReadEmployees(s, e)
    \/ ReadHours
    \/ ReadBonuses
    \/ ReadDeductions
    \/ PayrollReturn

SpecConc == Init /\ [][NextConc]_vars

----------------------------------------------------------------------------
(* What the claims speak of *)

\* last holds the report of a call of calculate_payroll (direct, or by the page)
PayrollReturned ==
    /\ last.op \in {"calculate_payroll", "render_payroll_section"}
    /\ last.outcome # "error"

ValidRange == DateLeq(last.start_date, last.end_date)

\* the roster employee a report row belongs to
EmployeeOf(row) == employees[row.index + 1]

\* the number a run of digits denotes
RECURSIVE Number(_)
Number(s) == IF s = <<>> THEN 0 ELSE 10 * Number(SubSeq(s, 1, Len(s) - 1)) + (s[Len(s)] - 48)

\* the calendar date a stored TEXT date denotes (date.fromisoformat)
fromisoformat(t) ==
    [year |-> Number(SubSeq(t, 1, 4)), month |-> Number(SubSeq(t, 6, 7)),
     day |-> Number(SubSeq(t, 9, 10))]

InRange(text, start_date, end_date) ==
    /\ DateLeq(start_date, fromisoformat(text))
    /\ DateLeq(fromisoformat(text), end_date)

\* e's work-hour entries dated within the range, by the dates' calendar order
HoursEntries(db, id, start_date, end_date) ==
    SelectSeq(db.work_hours,
              LAMBDA r : r.employee_id = id /\ InRange(r.work_date, start_date, end_date))

\* e's adjustments of one kind dated within the range
AdjustmentEntries(db, id, kind, start_date, end_date) ==
    SelectSeq(db.adjustments,
              LAMBDA r : /\ r.employee_id = id
                         /\ r.adjustment_type = kind
                         /\ InRange(r.adjustment_date, start_date, end_date))

NoActivity(db, id, start_date, end_date) ==
    /\ HoursEntries(db, id, start_date, end_date) = <<>>
    /\ \A k \in AdjustmentTypes : AdjustmentEntries(db, id, k, start_date, end_date) = <<>>

ZeroRow(row) ==
    /\ row.total_hours = 0
    /\ row.gross_pay = 0
    /\ row.bonus_total = 0
    /\ row.deduction_total = 0
    /\ row.net_pay = 0

\* C1: for a range with start_date <= end_date the report has exactly one row
\* per roster employee (none for an empty roster), and the row of an employee
\* with no work-hour entry and no adjustment in the range is all zero.
C1_OneRowPerEmployee ==
    (PayrollReturned /\ ValidRange) =>
        /\ Len(last.report) = Len(employees)
        /\ {last.report[i].index : i \in DOMAIN last.report} = 0..(Len(employees) - 1)
        /\ \A i \in DOMAIN last.report :
              LET row == last.report[i]
              IN  /\ row.full_name = EmployeeOf(row).full_name
                  /\ NoActivity(Store, EmployeeOf(row).id, last.start_date, last.end_date)
                        => ZeroRow(row)

\* a report of two rows, one of an employee whose only entry lies outside the range
C1_Witness ==
    /\ last.op = "calculate_payroll"
    /\ ValidRange
    /\ Len(last.report) = 2
    /\ \E i \in DOMAIN last.report :
          LET e == EmployeeOf(last.report[i])
          IN  /\ NoActivity(Store, e.id, last.start_date, last.end_date)
              /\ \E j \in DOMAIN work_hours : work_hours[j].employee_id = e.id
              /\ ZeroRow(last.report[i])

\* C2 (as claimed): every row's bonus_total and deduction_total are the sums of
\* the employee's bonuses and deductions dated in the range, whether or not the
\* employee has a work-hour entry in the range.
C2_AdjustmentTotals ==
    (PayrollReturned /\ ValidRange) =>
        \A i \in DOMAIN last.report :
            LET row == last.report[i]
                id == EmployeeOf(row).id
            IN  /\ row.bonus_total =
                     SumAmount(AdjustmentEntries(Store, id, "bonus",
                                                 last.start_date, last.end_date))
                /\ row.deduction_total =
                     SumAmount(AdjustmentEntries(Store, id, "deduction",
                                                 last.start_date, last.end_date))

\* C3: every row's total_hours is the sum of the employee's hours dated from
\* start_date to end_date, both included.
C3_TotalHours ==
    (PayrollReturned /\ ValidRange) =>
        \A i \in DOMAIN last.report :
            LET row == last.report[i]
            IN  row.total_hours =
                  SumHours(HoursEntries(Store, EmployeeOf(row).id,
                                        last.start_date, last.end_date))

\* a row that sums an entry dated start_date and one dated end_date
C3_Witness ==
    /\ last.op = "calculate_payroll"
    /\ DateLess(last.start_date, last.end_date)
    /\ \E i \in DOMAIN last.report :
          LET id == EmployeeOf(last.report[i]).id
          IN  /\ \E j, k \in DOMAIN work_hours :
                    /\ j # k
                    /\ work_hours[j].employee_id = id
                    /\ work_hours[k].employee_id = id
                    /\ work_hours[j].work_date = isoformat(last.start_date)
                    /\ work_hours[k].work_date = isoformat(last.end_date)
                    /\ last.report[i].total_hours =
                          work_hours[j].hours + work_hours[k].hours

\* the store of the example: rate 10, 8 hours on day 1 and 2 on day 2, a bonus
\* of 50 on day 1 and a deduction of 5 on day 2
ExampleStore ==
    LET d1 == DayAt(0)
        d2 == NextDay(d1)
        s1 == add_employee(EmptyStore, <<65>>, 10).db
        s2 == add_work_hours(s1, 1, d1, 8).db
        s3 == add_work_hours(s2, 1, d2, 2).db
        s4 == add_adjustment(s3, 1, d1, "bonus", 50).db
    IN  add_adjustment(s4, 1, d2, "deduction", 5).db

ExampleReport ==
    <<[index |-> 0, full_name |-> <<65>>, hourly_rate |-> 10, total_hours |-> 10,
       gross_pay |-> 100, bonus_total |-> 50, deduction_total |-> 5, net_pay |-> 145]>>

\* C4: in every row gross_pay = total_hours * hourly_rate and net_pay =
\* total_hours * hourly_rate + bonus_total - deduction_total, with the employee's
\* stored rate; the example's report is total_hours 10, gross_pay 100, net_pay 145.
C4_PayFormula ==
    /\ PayrollReturned =>
          \A i \in DOMAIN last.report :
              LET row == last.report[i]
              IN  /\ row.hourly_rate = EmployeeOf(row).hourly_rate
                  /\ row.gross_pay = row.total_hours * row.hourly_rate
                  /\ row.net_pay = row.total_hours * row.hourly_rate
                                     + row.bonus_total - row.deduction_total
    /\ calculate_payroll(ExampleStore, DayAt(0), NextDay(DayAt(0))) = {ExampleReport}

\* a row with hours worked and a deduction
C4_Witness ==
    /\ last.op = "calculate_payroll"
    /\ \E i \in DOMAIN last.report :
          /\ last.report[i].total_hours > 0
          /\ last.report[i].deduction_total > 0
          /\ last.report[i].net_pay = last.report[i].gross_pay - last.report[i].deduction_total

\* the three sums of the row of the employee at position i of the roster
Sums(db, i, start_date, end_date) ==
    LET row == payroll_of(db, start_date, end_date)[i]
    IN  <<row.total_hours, row.bonus_total, row.deduction_total>>

\* C5 (as claimed): for all dates a <= m < b, each of total_hours, bonus_total
\* and deduction_total of an employee's row for (a, b) is the sum of the same
\* field of the rows for (a, m) and (m + 1 day, b).
C5_Additive ==
    \A a \in Dates, m \in Dates, b \in Dates :
        (DateLeq(a, m) /\ DateLess(m, b)) =>
            \A i \in DOMAIN employees :
                LET whole == Sums(Store, i, a, b)
                    left == Sums(Store, i, a, m)
                    right == Sums(Store, i, NextDay(m), b)
                IN  \A f \in 1..3 : whole[f] = left[f] + right[f]

\* C6 (as claimed): a call of calculate_payroll with start_date > end_date ends
\* in an error and returns no rows.
C6_ReversedRangeFails ==
    (last.op = "calculate_payroll" /\ DateLess(last.end_date, last.start_date)) =>
        (last.outcome = "error" /\ last.report = <<>>)

\* C6 (amended): the page's payroll request with start_date > end_date ends in an
\* error and shows no rows; calculate_payroll itself, called with such a range,
\* raises nothing and returns an all-zero row per roster employee.
C6_ReversedRangeRejectedByPage ==
    DateLess(last.end_date, last.start_date) =>
        /\ last.op = "render_payroll_section" =>
              (last.outcome = "error" /\ last.report = <<>>)
        /\ last.op = "calculate_payroll" =>
              /\ last.outcome = "ok"
              /\ Len(last.report) = Len(employees)
              /\ \A i \in DOMAIN last.report : ZeroRow(last.report[i])

\* the page rejects a reversed range over a store that has an employee with hours
C6_Witness ==
    /\ last.op = "render_payroll_section"
    /\ DateLess(last.end_date, last.start_date)
    /\ last.outcome = "error"
    /\ employees # <<>>
    /\ work_hours # <<>>

\* C7 (as claimed): add_work_hours and add_adjustment reject an employee_id that
\* is no employee's id, so every stored entry references an existing employee.
C7_ReferentialIntegrity ==
    /\ (last.op \in {"add_work_hours", "add_adjustment"}
          /\ last.employee_id \notin EmployeeIds(Store)) => last.outcome = "error"
    /\ \A i \in DOMAIN work_hours : work_hours[i].employee_id \in EmployeeIds(Store)
    /\ \A i \in DOMAIN adjustments : adjustments[i].employee_id \in EmployeeIds(Store)

\* C8 (as claimed): the rows are in ascending full_name order, and rows with
\* equal full_name in ascending employee id order.
C8_SortedWithTieBreak ==
    PayrollReturned =>
        \A i, j \in DOMAIN last.report :
            i < j =>
                \/ TextLess(last.report[i].full_name, last.report[j].full_name)
                \/ /\ last.report[i].full_name = last.report[j].full_name
                   /\ EmployeeOf(last.report[i]).id < EmployeeOf(last.report[j]).id

\* the rows of a report, whatever their order
RowSet(report) == {report[i] : i \in DOMAIN report}

\* C9 (as claimed): the report of a call that other sessions' writes interleave
\* with is the report of one store state that existed during the call.
C9_Snapshot ==
    (last.op = "calculate_payroll" /\ pc = "idle") =>
        \E frame \in seen : RowSet(last.report) = RowSet(frame)

\* C10 (as claimed): an entry saved by the hours form or the adjustments form is
\* stored under the id of the roster employee the user selected.
C10_StoredUnderSelected ==
    /\ (last.op = "render_hours_section" /\ last.outcome = "ok") =>
          work_hours[Len(work_hours)].employee_id = last.employee_id
    /\ (last.op = "render_adjustments_section" /\ last.outcome = "ok") =>
          adjustments[Len(adjustments)].employee_id = last.employee_id

====
